---- MODULE Spec2Model ----
(***************************************************************************)
(* Waiting room of jawaracloud/rendi (waiting-room-demo).                  *)
(*                                                                         *)
(* The store is modelled at the level of its Lua scripts (Atomic Enqueue,  *)
(* Atomic Dequeue, Heartbeat Update, Cleanup Expired); every script is one *)
(* atomic step.  The Go handlers around the scripts (QueueService.Enqueue, *)
(* QueueService.AdmitNext, QueueService.RecordHeartbeat) are modelled with *)
(* one step per store round trip, so that their reads and the scripts of   *)
(* other handlers interleave.  One queue is modelled.                      *)
(*                                                                         *)
(* The reaper of the store is the Cleanup Expired script.  The goroutine   *)
(* reaper of the event notes (cleanupExpiredPositions, expirePosition over *)
(* Store.FindExpiredPositions) is modelled apart in SpecReaper; its store  *)
(* methods RemoveFromQueue and UpdatePosition are not in the sources.      *)
(* Position keys are taken within their TTL.  The end of a session is not  *)
(* modelled, and Cancel Position is modelled from the transition rules:    *)
(* the sources hold no code for either.  The key scheme                    *)
(* queue:{q}:priority:{level} of the design notes (LPUSH to enqueue, RPOP  *)
(* to admit) is the same discipline mirrored and is not modelled apart.    *)
(*                                                                         *)
(* The PubSubChannel operator (k8s-operator-pubsub) is a side model of its *)
(* own: SpecScaler for its autoscaler, SpecChannel for the whole           *)
(* reconciler.  The terminal dashboard of golang-pubsub is another,        *)
(* SpecDash.                                                               *)
(*                                                                         *)
(* Specifications, all over one list of variables:                         *)
(*   Spec          the Go handlers, interleaved                            *)
(*   SpecStore     the Lua scripts called directly                         *)
(*   SpecAdmin     SpecStore and the queue's status (Update Queue)         *)
(*   SpecReaper    several goroutine reapers                               *)
(*   SpecBucket    the admission bucket, local and distributed             *)
(*   SpecRateZero  the admission bucket with admission rate 0              *)
(*   SpecDemo      the smaller demo (RedisStorage, Service)                *)
(*   SpecCred      the TokenService (generate, validate, revoke)           *)
(*   SpecRefresh   the TokenService with RefreshToken                      *)
(*   SpecRotate    the TokenService with KeyManager.RotateKey              *)
(*   SpecHandle    the Lua scripts and HeartbeatHandler.Handle             *)
(*   SpecCancel    the Lua scripts, RecordHeartbeat and Cancel Position    *)
(*   SpecAllowed   SpecDemo with AllowNext (the allowed timestamp)         *)
(*   SpecScaler    the PubSubChannel operator's autoscaler                 *)
(*   SpecTokens    the admission bucket with token returns                 *)
(*   SpecBucketLive  SpecBucket with the admission loop running for ever   *)
(*   SpecAllow     the demo's Enqueue, CheckStatus and AllowNext           *)
(*   SpecChannel   the operator's Reconcile, both kinds of channel, pods   *)
(*   SpecDash      the dashboard's connection to Redis and its messages    *)
(***************************************************************************)
EXTENDS Integers, Sequences, FiniteSets, TLC

\* ---------------------------------------------------------------- bounds
MaxPos == 3
NumFP == 3
NumHandlers == 2
MaxTime == 1
MaxPendingHb == 1
NumReapers == 2
NumUsers == 2
DemoTimeoutSeconds == 1
DemoSlack == 2
DemoTicksPerSecond == 1
TokenTTL == 2
MaxCreds == 2
RefreshWindow == 1
NumKeys == 2
MaxReplicasCfg == 3
CooldownPeriod == 2
MaxDepthSteps == 10
MaxReturns == 2
MaxAllowCalls == 2

\* dashboard: capacity of msgChan, messages kept in the list
ChanCap == 4

KeepMessages == 5

\* ------------------------------------------------- queue configuration
NumPriorities == 4
MaxQueueSize == 2
MaxActive == 2
AdmissionRate == 1
HeartbeatTimeout == 1
BatchSize == 2
MicrosPerSecond == 1000000

\* --------------------------- the rate-bucket refill scenario (SpecBucket)
ScenarioRate == 2
ScenarioCapacity == 5
WindowSeconds == 10
\* clock resolution of the scenario: ticks per second
TicksPerSecond == 4

Pos == 1 .. MaxPos
Reapers == 1 .. NumReapers
Users == 1 .. NumUsers
KeyIDs == 1 .. NumKeys
FP == 1 .. NumFP
Handlers == 1 .. NumHandlers
Priorities == 0 .. (NumPriorities - 1)
\* priorities the modelled clients ask for (normal and premium)
ReqPriorities == {0, 3}

\* ------------------------------- PubSubChannel AutoScaling configuration
\* the kubebuilder defaults of AutoScalingConfig, in percent
TargetQueueDepth == 100
ScaleUpThreshold == 150
ScaleDownThreshold == 50
\* updateStatus: the simulated queue depth per replica
SimulatedDepth == 50

\* nil of the store (GET / LPOP / ZSCORE of an absent key or member)
Nil == 0
NoScore == -1
ErrQueueFull == -1
\* a STRING key of the store: <<>> when the key does not exist, else <<value>>
Absent == <<>>
Stored(v) == <<v>>
ValueOf(k) == k[1]

VARIABLES
  now,          \* wall clock: whole seconds (ticks in SpecBucket)
  waiting,      \* queue:{q}:waiting:{priority}   LIST per priority
  positions,    \* queue:{q}:positions            ZSET  member -> score
  status,       \* position:{id} status           HASH field
  prio,         \* position:{id} priority         HASH field
  fpOf,         \* position:{id} ip_hash          HASH field
  admittedAt,   \* position:{id} admitted_at      HASH field
  ipmap,        \* ipmap:{q}:{ip_hash}            STRING
  heartbeat,    \* heartbeat:active               ZSET  member -> score
  sessions,     \* queue:{q}:sessions:active      SET
  tokens,       \* AdmissionController.tokens
  lastRefill,   \* AdmissionController.lastRefill
  call,         \* QueueService.Enqueue calls in flight
  lastReturn,   \* what the last finished Enqueue call returned, and for whom
  hbPending,    \* RecordHeartbeat calls between status check and update
  nextId,       \* next fresh position id (uuid.New)
  mode,         \* which admission bucket is deployed: local or distributed
  luaTokens,    \* admission:{q}:tokens        STRING (Absent if no such key)
  luaLastUpdate,\* admission:{q}:last_update   STRING (Absent if no such key)
  granted,      \* number of admissions the bucket has granted
  rate,         \* queue:{q}:meta admission_rate of the bucket scenario
  reap,         \* cleanupExpiredPositions runs: where each reaper instance is
  expiredEvents,\* EventTypeExpired events published, per position
  demoQueue,    \* waiting_room:queue      ZSET  queue id -> score
  demoSessions, \* waiting_room:sessions   HASH  queue id -> last seen
  demoNext,     \* next fresh queue id (uuid.New) of the demo service
  cleaner,      \* the CleanupStaleSessions pass in progress
  lapsed,       \* users whose last heartbeat has been older than the timeout
  queueStatus,  \* queue:{q}:meta  status field
  issued,       \* the queue tokens signed so far (claims of each)
  revokedUntil, \* revocation:{token_id}: the time its TTL runs out
  revokedAt,    \* time of the first RevokeToken per token id
  lastValidate, \* the outcome of the validation just answered
  lastRefresh,  \* the refresh just answered: <<old token, token returned>>
  keys,         \* KeyManager.keys: the key ids in the key map
  activeKeyID,  \* KeyManager.activeKeyID, the key id the service signs with
  hbResponse,   \* what HeartbeatHandler answered last, per position
  postExpiry,   \* heartbeat requests answered since the position expired
  allowedTS,    \* waiting_room:allowed_timestamp STRING (0 stands for no key: GET or 0)
  allowReply,   \* the AllowNext call answered last: its number, n, what it returned
  chanSpec,     \* PubSubChannel.Spec: replicas, AutoScaling enabled and its bounds
  chanStatus,   \* PubSubChannel.Status: phase, replicas, readyReplicas,
                \* queueDepth, lastScaleTime
  deployReplicas, \* Deployment.Spec.Replicas of the subscriber (or NoDeployment)
  deployReady,  \* Deployment.Status.ReadyReplicas of the subscriber
  redisUp,      \* dashboard: whether the Redis server answers Ping
  dashboard,    \* dashboard model: connected, len(messages); subscribe() started
  dashCmd,      \* dashboard: the connect command, message or timer in flight
  pings,        \* dashboard: connection attempts made (runs of connectCmd)
  msgChan,      \* dashboard: messages buffered in model.msgChan
  scaleTimes,   \* the times at which the autoscaler changed the replica count
  scaleLog,     \* the reconcile just run: cooldown, depth, replicas before, after
  returned      \* tokens given back to the bucket by ReturnToken

vars == <<now, waiting, positions, status, prio, fpOf, admittedAt, ipmap,
          heartbeat, sessions, tokens, lastRefill, call, lastReturn, hbPending,
          nextId, mode, luaTokens, luaLastUpdate, granted, rate, reap,
          expiredEvents, demoQueue, demoSessions, demoNext, cleaner, lapsed,
          queueStatus, issued, revokedUntil, revokedAt, lastValidate,
          lastRefresh, keys, activeKeyID, hbResponse, postExpiry, allowedTS, allowReply,
          chanSpec, chanStatus, deployReplicas, deployReady, scaleTimes, scaleLog,
          returned, redisUp, dashboard, dashCmd, pings, msgChan>>

storeVars == <<waiting, positions, status, prio, fpOf, admittedAt, ipmap,
               heartbeat, sessions, nextId>>

handlerVars == <<call, lastReturn, hbPending>>

bucketVars == <<mode, luaTokens, luaLastUpdate, granted, rate>>

reaperVars == <<reap, expiredEvents>>

demoVars == <<demoQueue, demoSessions, demoNext, cleaner, lapsed>>

\* the variables of the side models, which the queue and the bucket never touch
adminVars == <<queueStatus>>

credVars == <<issued, revokedUntil, revokedAt, lastValidate, lastRefresh>>

respVars == <<hbResponse, postExpiry>>

keyVars == <<keys, activeKeyID>>

watermarkVars == <<allowedTS, allowReply>>

scalerVars == <<chanSpec, chanStatus, deployReplicas, scaleTimes, scaleLog>>

rollbackVars == <<returned>>

podVars == <<deployReady>>

dashVars == <<redisUp, dashboard, dashCmd, pings, msgChan>>

moreVars == <<watermarkVars, scalerVars, rollbackVars, podVars, dashVars>>

sideVars == <<reaperVars, demoVars, adminVars, credVars, keyVars, respVars,
             moreVars>>

\* ------------------------------------------------------------- helpers
Min(a, b) == IF a < b THEN a ELSE b

InList(l, v) == \E i \in 1 .. Len(l) : l[i] = v

Occurrences(l, v) == Cardinality({i \in 1 .. Len(l) : l[i] = v})

\* ------------------------------------------------------ list primitives
RPush_front(l, v) == <<v>> \o l

RPush(l, v) == Append(l, v)

\* ----------------------------------------------------- Atomic Enqueue
Micros(t) == t * MicrosPerSecond

HeartbeatScore(ts) == ts \div MicrosPerSecond

EnqueueHeartbeat_omitted(hb, id, ts) == hb

EnqueueHeartbeat(hb, id, ts) == [hb EXCEPT ![id] = HeartbeatScore(ts)]

QueueLength == Cardinality({p \in Pos : positions[p] # NoScore})

IsAtCapacity == MaxQueueSize > 0 /\ QueueLength >= MaxQueueSize

FindByIP(f) ==
  IF ipmap[f] # Nil /\ status[ipmap[f]] = "waiting" THEN ipmap[f] ELSE Nil

InFlight == Cardinality({h \in Handlers : call[h].pc # "idle"})

Idle == [pc |-> "idle", fp |-> Nil, prio |-> 0]

\* QueueService.Enqueue, step 1: capacity check
EnqCheckCapacity(h, f, pr) ==
  /\ call[h].pc = "idle"
  /\ nextId + InFlight <= MaxPos
  /\ IF IsAtCapacity
       THEN /\ lastReturn' = [fp |-> f, ret |-> ErrQueueFull]
            /\ UNCHANGED call
       ELSE /\ call' = [call EXCEPT ![h] = [pc |-> "dedup", fp |-> f, prio |-> pr]]
            /\ UNCHANGED lastReturn
  /\ UNCHANGED <<now, storeVars, tokens, lastRefill, hbPending, bucketVars,
                 sideVars>>

\* QueueService.Enqueue, step 2: duplicate check
EnqFindByIP(h) ==
  /\ call[h].pc = "dedup"
  /\ LET e == FindByIP(call[h].fp) IN
       IF e # Nil
         THEN /\ lastReturn' = [fp |-> call[h].fp, ret |-> e]
              /\ call' = [call EXCEPT ![h] = Idle]
         ELSE /\ call' = [call EXCEPT ![h] = [@ EXCEPT !.pc = "script"]]
              /\ UNCHANGED lastReturn
  /\ UNCHANGED <<now, storeVars, tokens, lastRefill, hbPending, bucketVars,
                 sideVars>>

\* the Atomic Enqueue script, called for fingerprint f and priority pr
AtomicEnqueue(f, pr) ==
  LET existing == ipmap[f]
      id == nextId
      ts == Micros(now)
  IN IF existing # Nil
       THEN UNCHANGED storeVars
       ELSE /\ waiting' = [waiting EXCEPT ![pr] = RPush(@, id)]
            /\ positions' = [positions EXCEPT ![id] = ts]
            /\ status' = [status EXCEPT ![id] = "waiting"]
            /\ prio' = [prio EXCEPT ![id] = pr]
            /\ fpOf' = [fpOf EXCEPT ![id] = f]
            /\ ipmap' = [ipmap EXCEPT ![f] = id]
            /\ heartbeat' = EnqueueHeartbeat(heartbeat, id, ts)
            /\ nextId' = nextId + 1
            /\ UNCHANGED <<admittedAt, sessions>>

\* what the script returns: the existing position id, or the new one
AtomicEnqueueResult(f) == IF ipmap[f] # Nil THEN ipmap[f] ELSE nextId

\* QueueService.Enqueue, steps 3-5: create the position, run the script
EnqueuePosition(h) ==
  /\ call[h].pc = "script"
  /\ AtomicEnqueue(call[h].fp, call[h].prio)
  /\ lastReturn' = [fp |-> call[h].fp, ret |-> AtomicEnqueueResult(call[h].fp)]
  /\ call' = [call EXCEPT ![h] = Idle]
  /\ UNCHANGED <<now, tokens, lastRefill, hbPending, bucketVars,
                 sideVars>>

\* the script run by any instance, outside a modelled handler
EnqueueScript(f, pr) ==
  /\ ipmap[f] = Nil
  /\ \A g \in FP : g < f => ipmap[g] # Nil
  /\ nextId <= MaxPos
  /\ AtomicEnqueue(f, pr)
  /\ UNCHANGED <<now, tokens, lastRefill, handlerVars, bucketVars,
                 sideVars>>

\* --------------------------------------------------- Admission control
\* int64(elapsed * float64(refillRate)), elapsed in ticks of 1/tps second
Refill_roundedUp(elapsed, r, tps) == (elapsed * r + tps - 1) \div tps

Refill(elapsed, r, tps) == (elapsed * r) \div tps

Refilled_unclamped(t, refill, capacity) == t + refill

Refilled(t, refill, capacity) == Min(t + refill, capacity)

TryAdmit_nonNegative(t, last, clock, r, capacity, tps) ==
  LET filled == Refilled(t, Refill(clock - last, r, tps), capacity)
  IN IF filled >= 0
       THEN [ok |-> TRUE, tokens |-> filled, last |-> clock]
       ELSE [ok |-> FALSE, tokens |-> filled, last |-> clock]

\* AdmissionController.TryAdmit: result and the controller's new state
TryAdmit(t, last, clock, r, capacity, tps) ==
  LET filled == Refilled(t, Refill(clock - last, r, tps), capacity)
  IN IF filled > 0
       THEN [ok |-> TRUE, tokens |-> filled - 1, last |-> clock]
       ELSE [ok |-> FALSE, tokens |-> filled, last |-> clock]

\* INCR of the token count
ReturnToken_kept(t) == t

ReturnToken(t) == t + 1

\* ----------------------------------------------------- Atomic Dequeue
\* KEYS[1..4] of the script, as priority levels
DequeueKeys == <<0, 1, 2, 3>>

\* the first i in 1..4 whose list is non-empty, 0 if all are empty
RECURSIVE FirstNonEmpty(_)
FirstNonEmpty(i) ==
  IF i > NumPriorities THEN 0
  ELSE IF waiting[DequeueKeys[i]] # <<>> THEN i
  ELSE FirstNonEmpty(i + 1)

\* QueueService.AdmitNext
AdmitNext ==
  LET r == TryAdmit(tokens, lastRefill, now, AdmissionRate, MaxActive, 1)
      i == FirstNonEmpty(1)
  IN /\ lastRefill' = r.last
     /\ IF ~r.ok
          THEN /\ tokens' = r.tokens
               /\ UNCHANGED storeVars
        ELSE IF i = 0
          THEN /\ tokens' = ReturnToken(r.tokens)
               /\ UNCHANGED storeVars
        ELSE LET k == DequeueKeys[i]
                 id == Head(waiting[k])
             IN /\ tokens' = r.tokens
                /\ waiting' = [waiting EXCEPT ![k] = Tail(@)]
                /\ positions' = [positions EXCEPT ![id] = NoScore]
                /\ status' = [status EXCEPT ![id] = "admitted"]
                /\ admittedAt' = [admittedAt EXCEPT ![id] = now]
                /\ sessions' = sessions \cup {id}
                /\ UNCHANGED <<prio, fpOf, ipmap, heartbeat, nextId>>
     /\ UNCHANGED <<now, handlerVars, bucketVars,
                 sideVars>>

\* ---------------------------------------------------------- Heartbeat
\* QueueService.RecordHeartbeat: GetPosition and the status check
HbCheck(p) ==
  /\ status[p] = "waiting"
  /\ p \notin hbPending
  /\ Cardinality(hbPending) < MaxPendingHb
  /\ hbPending' = hbPending \cup {p}
  /\ UNCHANGED <<now, storeVars, tokens, lastRefill, call, lastReturn, bucketVars,
                 sideVars>>

\* the Heartbeat Update script
HeartbeatUpdate(p) ==
  /\ IF status[p] = "none"
       THEN UNCHANGED heartbeat
       ELSE heartbeat' = [heartbeat EXCEPT ![p] = now]
  /\ UNCHANGED <<waiting, positions, status, prio, fpOf, admittedAt, ipmap,
                 sessions, nextId>>

\* QueueService.RecordHeartbeat: UpdatePositionHeartbeat
HbUpdate(p) ==
  /\ p \in hbPending
  /\ hbPending' = hbPending \ {p}
  /\ HeartbeatUpdate(p)
  /\ UNCHANGED <<now, tokens, lastRefill, call, lastReturn, bucketVars,
                 sideVars>>

\* the script run by any instance, outside a modelled handler
HeartbeatScript(p) ==
  /\ status[p] # "none"
  /\ heartbeat[p] # now
  /\ HeartbeatUpdate(p)
  /\ UNCHANGED <<now, tokens, lastRefill, handlerVars, bucketVars,
                 sideVars>>

\* ------------------------------------------------------ Cleanup Expired
Stale(cutoff) == {p \in Pos : heartbeat[p] # NoScore /\ heartbeat[p] <= cutoff}

\* ZRANGEBYSCORE order: by score, then by member
Before(p, q) ==
  \/ heartbeat[p] < heartbeat[q]
  \/ heartbeat[p] = heartbeat[q] /\ p < q

\* ZRANGEBYSCORE -inf cutoff LIMIT 0 batch
ExpiredBatch(cutoff) ==
  {p \in Stale(cutoff) :
     Cardinality({q \in Stale(cutoff) : Before(q, p)}) < BatchSize}

CleanupStatus(st, expired) ==
  [p \in Pos |-> IF p \in expired THEN "expired" ELSE st[p]]

CleanupExpired ==
  LET expired == ExpiredBatch(now - HeartbeatTimeout) IN
  /\ expired # {}
  /\ heartbeat' = [p \in Pos |-> IF p \in expired THEN NoScore ELSE heartbeat[p]]
  /\ positions' = [p \in Pos |-> IF p \in expired THEN NoScore ELSE positions[p]]
  /\ status' = CleanupStatus(status, expired)
  /\ UNCHANGED <<now, waiting, prio, fpOf, admittedAt, ipmap, sessions, nextId,
                 tokens, lastRefill, handlerVars, bucketVars,
                 sideVars>>

\* ---------------------------------------------------------------- time
Tick ==
  /\ now < MaxTime
  /\ now' = now + 1
  /\ UNCHANGED <<storeVars, tokens, lastRefill, handlerVars, bucketVars,
                 sideVars>>

\* ------------------------------------------ the reaper goroutine (Go)
ReaperIdle == [pc |-> "idle", found |-> {}]

NoValidation == "none"

NoRefresh == <<>>

\* no PubSubChannel object yet; the status of a channel just created
NoChannel ==
  [replicas |-> NoScore, enabled |-> FALSE, minReplicas |-> 0,
   maxReplicas |-> 0]

NoStatus ==
  [phase |-> "", replicas |-> 0, readyReplicas |-> 0, queueDepth |-> 0,
   lastScaleTime |-> NoScore]

\* the Get of the subscriber deployment answers NotFound
NoDeployment == -1

\* dashboard: the delay of the retry timer, seconds
RetrySeconds == 3

NoReply == [seq |-> 0, n |-> 0, ts |-> 0]

\* dashboard: no command in flight; the model initialModel returns
NoCmd == [kind |-> "none", success |-> FALSE, err |-> FALSE, after |-> 0]

InitialModel == [connected |-> FALSE, subscribed |-> FALSE, messages |-> 0]

NoReconcile == [ran |-> FALSE, cooldown |-> FALSE, depth |-> 0, from |-> 0,
                to |-> 0]

CleanerIdle == [pc |-> "idle", threshold |-> 0, pending |-> {}, cur |-> Nil]

\* the side models at rest
SideInit ==
  /\ reap = [r \in Reapers |-> ReaperIdle]
  /\ expiredEvents = [p \in Pos |-> 0]
  /\ demoQueue = [u \in Users |-> NoScore]
  /\ demoSessions = [u \in Users |-> NoScore]
  /\ demoNext = 1
  /\ cleaner = CleanerIdle
  /\ lapsed = {}
  /\ queueStatus = "active"
  /\ issued = {}
  /\ revokedUntil = [p \in Pos |-> 0]
  /\ revokedAt = [p \in Pos |-> NoScore]
  /\ lastValidate = NoValidation
  /\ lastRefresh = NoRefresh
  /\ keys = {1}
  /\ activeKeyID = 1
  /\ hbResponse = [p \in Pos |-> "none"]
  /\ postExpiry = [p \in Pos |-> 0]
  /\ allowedTS = 0
  /\ allowReply = NoReply
  /\ chanSpec = NoChannel
  /\ chanStatus = NoStatus
  /\ deployReplicas = NoDeployment
  /\ deployReady = 0
  /\ scaleTimes = {}
  /\ scaleLog = NoReconcile
  /\ returned = 0
  /\ redisUp = FALSE
  /\ dashboard = InitialModel
  /\ dashCmd = [NoCmd EXCEPT !.kind = "connectCmd"]
  /\ pings = 0
  /\ msgChan = 0

\* Store.FindExpiredPositions, first command: ZRangeByScore -inf .. cutoff
ReaperScan(r) ==
  /\ reap[r].pc = "idle"
  /\ Stale(now - HeartbeatTimeout) # {}
  /\ reap' = [reap EXCEPT ![r] = [pc |-> "zrem",
                                  found |-> Stale(now - HeartbeatTimeout)]]
  /\ UNCHANGED <<now, storeVars, tokens, lastRefill, handlerVars, bucketVars,
                 expiredEvents, demoVars, adminVars, credVars, keyVars, moreVars, respVars>>

\* Store.FindExpiredPositions, second command: ZRem of what was read
ReaperZRem(r) ==
  /\ reap[r].pc = "zrem"
  /\ heartbeat' = [p \in Pos |->
                     IF p \in reap[r].found THEN NoScore ELSE heartbeat[p]]
  /\ reap' = [reap EXCEPT ![r].pc = "expire"]
  /\ UNCHANGED <<now, waiting, positions, status, prio, fpOf, admittedAt, ipmap,
                 sessions, nextId, tokens, lastRefill, handlerVars, bucketVars,
                 expiredEvents, demoVars, adminVars, credVars, keyVars, moreVars, respVars>>

\* Store.RemoveFromQueue: the position leaves its list and the rank set
RemoveFromQueue(l, p) == SelectSeq(l, LAMBDA x : x # p)

\* QueueService.expirePosition for one position the reaper was given
ReaperExpire(r, p) ==
  /\ reap[r].pc = "expire"
  /\ p \in reap[r].found
  /\ waiting' = [k \in Priorities |-> RemoveFromQueue(waiting[k], p)]
  /\ positions' = [positions EXCEPT ![p] = NoScore]
  /\ status' = [status EXCEPT ![p] = "expired"]
  /\ expiredEvents' = [expiredEvents EXCEPT ![p] = @ + 1]
  /\ reap' = [reap EXCEPT ![r] =
                IF reap[r].found = {p} THEN ReaperIdle
                ELSE [pc |-> "expire", found |-> reap[r].found \ {p}]]
  /\ UNCHANGED <<now, prio, fpOf, admittedAt, ipmap, heartbeat, sessions, nextId,
                 tokens, lastRefill, handlerVars, bucketVars, demoVars,
                 adminVars, credVars, keyVars, moreVars, respVars>>

\* ------------------------------------------------------- specification
Init ==
  /\ now = 0
  /\ waiting = [k \in Priorities |-> <<>>]
  /\ positions = [p \in Pos |-> NoScore]
  /\ status = [p \in Pos |-> "none"]
  /\ prio = [p \in Pos |-> 0]
  /\ fpOf = [p \in Pos |-> Nil]
  /\ admittedAt = [p \in Pos |-> NoScore]
  /\ ipmap = [f \in FP |-> Nil]
  /\ heartbeat = [p \in Pos |-> NoScore]
  /\ sessions = {}
  /\ tokens = MaxActive
  /\ lastRefill = 0
  /\ call = [h \in Handlers |-> Idle]
  /\ lastReturn = [fp |-> Nil, ret |-> Nil]
  /\ hbPending = {}
  /\ nextId = 1
  /\ mode = "local"
  /\ luaTokens = Absent
  /\ luaLastUpdate = Absent
  /\ granted = 0
  /\ rate = AdmissionRate
  /\ SideInit

Next ==
  \/ \E h \in Handlers, f \in FP, pr \in ReqPriorities : EnqCheckCapacity(h, f, pr)
  \/ \E h \in Handlers : EnqFindByIP(h)
  \/ \E h \in Handlers : EnqueuePosition(h)
  \/ AdmitNext
  \/ \E p \in Pos : HbCheck(p)
  \/ \E p \in Pos : HbUpdate(p)
  \/ CleanupExpired
  \/ Tick

Spec == Init /\ [][Next]_vars

\* The scripts called directly, in any order and with any arguments, and the
\* admission loop: every store state of Spec is a store state of SpecStore.
NextStore ==
  \/ \E f \in FP, pr \in ReqPriorities : EnqueueScript(f, pr)
  \/ AdmitNext
  \/ \E p \in Pos : HeartbeatScript(p)
  \/ CleanupExpired
  \/ Tick

SpecStore == Init /\ [][NextStore]_vars

\* The queue with its reaper run as the goroutine cleanupExpiredPositions, by
\* several instances.
NextReaper ==
  \/ \E f \in FP, pr \in ReqPriorities : EnqueueScript(f, pr)
  \/ AdmitNext
  \/ \E r \in Reapers : ReaperScan(r)
  \/ \E r \in Reapers : ReaperZRem(r)
  \/ \E r \in Reapers, p \in Pos : ReaperExpire(r, p)
  \/ Tick

SpecReaper == Init /\ [][NextReaper]_vars

\* ------------------------------------------------------- Get Position
\* Store.GetPositionRank: ZRANK queue:{q}:positions id, the number of
\* members with a lower score (ties by member), or -1 for no member
GetPositionRank(p) ==
  IF positions[p] = NoScore THEN -1
  ELSE Cardinality({q \in Pos : /\ positions[q] # NoScore
                                /\ \/ positions[q] < positions[p]
                                   \/ positions[q] = positions[p] /\ q < p})

\* QueueService.GetPosition: PositionInfo.QueuePosition
QueuePosition(p) == GetPositionRank(p) + 1

\* ----------------------------------------------------- HeartbeatHandler
\* HeartbeatHandler.Handle for the token of position p, the token being
\* valid: RecordHeartbeat, then the answer.  A position that is not
\* waiting is returned as it is; only StatusAdmitted is told apart, every
\* other status is answered with the position info and Status "waiting".
HandleResponse(p) == IF status[p] = "admitted" THEN "admitted" ELSE "waiting"

Handle(p) ==
  /\ status[p] # "none"
  /\ IF status[p] = "waiting"
       THEN HeartbeatUpdate(p)
       ELSE UNCHANGED storeVars
  /\ hbResponse' = [hbResponse EXCEPT ![p] = HandleResponse(p)]
  /\ postExpiry' = [postExpiry EXCEPT ![p] =
                       IF status[p] = "expired" THEN Min(@ + 1, 2) ELSE @]
  /\ UNCHANGED <<now, tokens, lastRefill, handlerVars, bucketVars,
                 reaperVars, demoVars, adminVars, credVars, keyVars, moreVars>>

NextHandle ==
  \/ \E f \in FP, pr \in ReqPriorities : EnqueueScript(f, pr)
  \/ AdmitNext
  \/ \E p \in Pos : Handle(p)
  \/ CleanupExpired
  \/ Tick

SpecHandle == Init /\ [][NextHandle]_vars

\* ------------------------------------------------------ Cancel Position
\* DELETE /queues/{queue_id}/position.  The transition rules name the
\* effect (WAITING, cancel: remove from queue, emit event) and the API the
\* answer (status "cancelled"); no script or handler of the sources carries
\* it out.  It is taken as one script: LREM from the position's priority
\* list, ZREM from the rank set and from heartbeat:active, status cancelled,
\* the position hash kept.
Cancel(p) ==
  /\ status[p] = "waiting"
  /\ waiting' = [waiting EXCEPT ![prio[p]] = RemoveFromQueue(@, p)]
  /\ positions' = [positions EXCEPT ![p] = NoScore]
  /\ heartbeat' = [heartbeat EXCEPT ![p] = NoScore]
  /\ status' = [status EXCEPT ![p] = "cancelled"]
  /\ UNCHANGED <<now, prio, fpOf, admittedAt, ipmap, sessions, nextId,
                 tokens, lastRefill, handlerVars, bucketVars, sideVars>>

NextCancel ==
  \/ \E f \in FP, pr \in ReqPriorities : EnqueueScript(f, pr)
  \/ AdmitNext
  \/ \E p \in Pos : HbCheck(p)
  \/ \E p \in Pos : HbUpdate(p)
  \/ \E p \in Pos : Cancel(p)
  \/ CleanupExpired
  \/ Tick

SpecCancel == Init /\ [][NextCancel]_vars

\* ------------------------------------------------- queue administration
QueueStates == {"active", "paused", "maintenance"}

\* PATCH /admin/queues/{queue_id} with a status: HSET queue:{q}:meta status
UpdateQueue(s) ==
  /\ queueStatus' = s
  /\ UNCHANGED <<now, storeVars, tokens, lastRefill, handlerVars, bucketVars,
                 reaperVars, demoVars, credVars, keyVars, moreVars, respVars>>

NextAdmin ==
  \/ \E f \in FP, pr \in ReqPriorities : EnqueueScript(f, pr)
  \/ AdmitNext
  \/ \E p \in Pos : HeartbeatScript(p)
  \/ CleanupExpired
  \/ Tick
  \/ \E s \in QueueStates : UpdateQueue(s)

SpecAdmin == Init /\ [][NextAdmin]_vars

\* ------------------------------------------------------- TokenService
\* hashIP: hex(sha256(ipSalt + ip))[:16].  SHA-256 is not computed: the
\* stand-in is a salted map, one-to-one on the addresses of the model
\* (no two of them collide).
IpSalt == 3
HashFactor == 7
HashSpace == 16
HashIP(ip) == (ip * HashFactor + IpSalt) % HashSpace

TokenTypes == {"queue", "session"}

\* one tick past the expiry of a token issued at the start
CredHorizon == TokenTTL + 1

\* the positions handed to the service: position p joined from the
\* address IPAddress(p), and keeps it
IPAddress(p) == ((p - 1) % NumFP) + 1

\* GenerateQueueToken: the claims of a position's token, signed.  sig
\* tells whether the signature verifies under the key of the header's kid.
QueueTokenClaims(p, clock) ==
  [id |-> p, typ |-> "queue", ipHash |-> HashIP(IPAddress(p)),
   nbf |-> clock, exp |-> clock + TokenTTL, kid |-> activeKeyID,
   sig |-> TRUE]

GenerateQueueToken(p) ==
  /\ Cardinality(issued) < MaxCreds
  /\ issued' = issued \cup {QueueTokenClaims(p, now)}
  /\ lastValidate' = NoValidation
  /\ lastRefresh' = NoRefresh
  /\ UNCHANGED <<now, storeVars, tokens, lastRefill, handlerVars, bucketVars,
                 reaperVars, demoVars, adminVars, keyVars, moreVars, respVars, revokedUntil, revokedAt>>

\* a token somebody can present: one that was signed, or one whose
\* signature does not verify
Presentable == {[c EXCEPT !.sig = v] : c \in issued, v \in BOOLEAN}

\* isRevoked: EXISTS revocation:{token_id}; the key lives until its TTL
isRevoked(tokenID) == now < revokedUntil[tokenID]

\* ValidateToken: jwt.ParseWithClaims (signature, exp, nbf), the token
\* type, the revocation list
ValidateToken(c, expectedType) ==
  IF c.kid # activeKeyID THEN "unknown key ID"
  ELSE IF ~c.sig THEN "invalid"
  ELSE IF ~(now < c.exp) THEN "expired"
  ELSE IF ~(c.nbf <= now) THEN "not-yet-valid"
  ELSE IF c.typ # expectedType THEN "ErrWrongTokenType"
  ELSE IF isRevoked(c.id) THEN "ErrTokenRevoked"
  ELSE "ok"

ValidateIPBinding_advisory(c, clientIP) == TRUE

ValidateIPBinding(c, clientIP) == c.ipHash = HashIP(clientIP)

\* Validation Steps 1 to 7: ValidateToken, then the IP binding
Validate(c, expectedType, clientIP) ==
  IF ValidateToken(c, expectedType) # "ok" THEN ValidateToken(c, expectedType)
  ELSE IF ~ValidateIPBinding(c, clientIP) THEN "bound-mismatch"
  ELSE "ok"

\* a validation request and its answer; validation only reads, so the
\* requests are taken one after the other
ValidateCall(c, expectedType, clientIP) ==
  /\ lastValidate = NoValidation
  /\ lastValidate' = Validate(c, expectedType, clientIP)
  /\ lastRefresh' = NoRefresh
  /\ UNCHANGED <<now, storeVars, tokens, lastRefill, handlerVars, bucketVars,
                 reaperVars, demoVars, adminVars, keyVars, moreVars, respVars, issued, revokedUntil,
                 revokedAt>>

\* RevokeToken(tokenID, reason, ttl): SET revocation:{token_id} reason EX
\* ttl, with the remaining lifetime of the token c being revoked
RevokeToken(c) ==
  /\ now < c.exp
  /\ revokedUntil' = [revokedUntil EXCEPT ![c.id] = now + (c.exp - now)]
  /\ revokedAt' = [revokedAt EXCEPT ![c.id] =
                      IF @ = NoScore THEN now ELSE @]
  /\ lastValidate' = NoValidation
  /\ lastRefresh' = NoRefresh
  /\ UNCHANGED <<now, storeVars, tokens, lastRefill, handlerVars, bucketVars,
                 reaperVars, demoVars, adminVars, keyVars, moreVars, respVars, issued>>

CredTick ==
  /\ now < CredHorizon
  /\ now' = now + 1
  /\ lastValidate' = NoValidation
  /\ lastRefresh' = NoRefresh
  /\ UNCHANGED <<storeVars, tokens, lastRefill, handlerVars, bucketVars,
                 reaperVars, demoVars, adminVars, keyVars, moreVars, respVars, issued, revokedUntil,
                 revokedAt>>

\* validateForRefresh: the checks of ValidateToken, an expired token being
\* let through for the refresh window
validateForRefresh(c) ==
  /\ c.kid = activeKeyID
  /\ c.sig
  /\ now < c.exp + RefreshWindow
  /\ c.nbf <= now
  /\ c.typ = "queue"
  /\ ~isRevoked(c.id)

NearExpiry(c) == ~(c.exp > now + RefreshWindow)

RefreshedClaims_expired(c, clock) ==
  [c EXCEPT !.exp = clock, !.kid = activeKeyID]

\* newClaims: the same claims, IssuedAt and ExpiresAt renewed
RefreshedClaims(c, clock) ==
  [c EXCEPT !.exp = clock + TokenTTL, !.kid = activeKeyID]

\* RefreshToken: the old token when it is not near its expiry, else a
\* new token signed over the renewed claims
RefreshResult(c) == IF NearExpiry(c) THEN RefreshedClaims(c, now) ELSE c

RefreshToken(c) ==
  /\ validateForRefresh(c)
  /\ issued' = issued \cup {RefreshResult(c)}
  /\ lastRefresh' = <<c, RefreshResult(c)>>
  /\ lastValidate' = NoValidation
  /\ UNCHANGED <<now, storeVars, tokens, lastRefill, handlerVars, bucketVars,
                 reaperVars, demoVars, adminVars, keyVars, moreVars, respVars, revokedUntil, revokedAt>>

NextRefresh ==
  \/ \E p \in Pos : GenerateQueueToken(p)
  \/ \E c \in issued : RefreshToken(c)
  \/ CredTick

SpecRefresh == Init /\ [][NextRefresh]_vars

\* KeyManager.RotateKey; the service signs with the manager's active key
RotateKey(newKeyID) ==
  /\ keys' = keys \cup {newKeyID}
  /\ activeKeyID' = newKeyID
  /\ lastValidate' = NoValidation
  /\ lastRefresh' = NoRefresh
  /\ UNCHANGED <<now, storeVars, tokens, lastRefill, handlerVars, bucketVars,
                 reaperVars, demoVars, adminVars, issued, revokedUntil,
                 revokedAt, respVars, moreVars>>

\* KeyManager.GetKey
GetKey(keyID) == IF keyID \in keys THEN keyID ELSE Nil

NextRotate ==
  \/ \E p \in Pos : GenerateQueueToken(p)
  \/ \E c \in Presentable, t \in TokenTypes, f \in FP : ValidateCall(c, t, f)
  \/ \E k \in KeyIDs : RotateKey(k)
  \/ CredTick

SpecRotate == Init /\ [][NextRotate]_vars

NextCred ==
  \/ \E p \in Pos : GenerateQueueToken(p)
  \/ \E c \in Presentable, t \in TokenTypes, f \in FP : ValidateCall(c, t, f)
  \/ \E c \in issued : RevokeToken(c)
  \/ CredTick

SpecCred == Init /\ [][NextCred]_vars

\* ------------------------------- the smaller demo (allowed-timestamp)
\* Timestamps of the demo are UnixNano values; the model keeps them in clock
\* ticks.  timeoutSeconds * 1e9 at the clock's resolution:
TimeoutNano(timeoutSeconds) == timeoutSeconds * DemoTicksPerSecond

DemoHorizon == DemoTimeoutSeconds * DemoTicksPerSecond + DemoSlack

\* everything but the demo's own keys and the clock
nonDemoVars == <<storeVars, tokens, lastRefill, handlerVars, bucketVars,
                 reaperVars, adminVars, credVars, keyVars, moreVars, respVars>>

\* Service.Enqueue: RedisStorage.Enqueue (ZADD, HSET) for a fresh queue id
DemoEnqueue ==
  /\ demoNext <= NumUsers
  /\ demoQueue' = [demoQueue EXCEPT ![demoNext] = now]
  /\ demoSessions' = [demoSessions EXCEPT ![demoNext] = now]
  /\ demoNext' = demoNext + 1
  /\ UNCHANGED <<now, nonDemoVars, cleaner, lapsed>>

\* Service.CheckStatus: RedisStorage.GetStatus refreshes the heartbeat of a
\* queue id that is still in the queue
DemoCheckStatus(u) ==
  /\ u < demoNext
  /\ demoSessions' = IF demoQueue[u] = NoScore
                        THEN demoSessions          \* returns {-1, 0}
                        ELSE [demoSessions EXCEPT ![u] = now]
  /\ UNCHANGED <<now, nonDemoVars, demoQueue, demoNext, cleaner, lapsed>>

\* CleanupStaleSessions: threshold := now - timeoutNano
CleanupBegin ==
  /\ cleaner.pc = "idle"
  /\ cleaner' = [CleanerIdle EXCEPT !.pc = "read",
                   !.threshold = now - TimeoutNano(DemoTimeoutSeconds)]
  /\ UNCHANGED <<now, nonDemoVars, demoQueue, demoSessions, demoNext, lapsed>>

StaleSession_inclusive(lastSeen, threshold) == lastSeen <= threshold

StaleSession(lastSeen, threshold) == lastSeen < threshold

\* CleanupStaleSessions: HGetAll, and the entries the loop will remove
CleanupHGetAll ==
  /\ cleaner.pc = "read"
  /\ cleaner' = [cleaner EXCEPT !.pc = "loop",
        !.pending = {u \in Users : /\ demoSessions[u] # NoScore
                                   /\ StaleSession(demoSessions[u],
                                                   cleaner.threshold)}]
  /\ UNCHANGED <<now, nonDemoVars, demoQueue, demoSessions, demoNext, lapsed>>

\* CleanupStaleSessions: ZRem of one stale entry
CleanupZRem(u) ==
  /\ cleaner.pc = "loop"
  /\ cleaner.cur = Nil
  /\ u \in cleaner.pending
  /\ demoQueue' = [demoQueue EXCEPT ![u] = NoScore]
  /\ cleaner' = [cleaner EXCEPT !.cur = u, !.pending = @ \ {u}]
  /\ UNCHANGED <<now, nonDemoVars, demoSessions, demoNext, lapsed>>

CleanupHDel_kept ==
  /\ cleaner.pc = "loop"
  /\ cleaner.cur # Nil
  /\ cleaner' = [cleaner EXCEPT !.cur = Nil]
  /\ UNCHANGED <<now, nonDemoVars, demoQueue, demoSessions, demoNext, lapsed>>

\* CleanupStaleSessions: HDel of the same entry
CleanupHDel ==
  /\ cleaner.pc = "loop"
  /\ cleaner.cur # Nil
  /\ demoSessions' = [demoSessions EXCEPT ![cleaner.cur] = NoScore]
  /\ cleaner' = [cleaner EXCEPT !.cur = Nil]
  /\ UNCHANGED <<now, nonDemoVars, demoQueue, demoNext, lapsed>>

\* CleanupStaleSessions returns
CleanupReturn ==
  /\ cleaner.pc = "loop"
  /\ cleaner.cur = Nil
  /\ cleaner.pending = {}
  /\ cleaner' = CleanerIdle
  /\ UNCHANGED <<now, nonDemoVars, demoQueue, demoSessions, demoNext, lapsed>>

\* time passes; a user whose last heartbeat is now older than the timeout
\* has lapsed
DemoTick ==
  /\ now < DemoHorizon
  /\ now' = now + 1
  /\ lapsed' = lapsed \cup
       {u \in Users : /\ demoSessions[u] # NoScore
                      /\ now' - demoSessions[u] > TimeoutNano(DemoTimeoutSeconds)}
  /\ UNCHANGED <<nonDemoVars, demoQueue, demoSessions, demoNext, cleaner>>

\* ZRANK waiting_room:queue: the members with a lower score (ties by member)
DemoRank(u) ==
  Cardinality({v \in Users : /\ demoQueue[v] # NoScore
                             /\ \/ demoQueue[v] < demoQueue[u]
                                \/ demoQueue[v] = demoQueue[u] /\ v < u})

\* ZCARD waiting_room:queue
DemoTotal == Cardinality({v \in Users : demoQueue[v] # NoScore})

Allowed_strict(score, allowed_ts) == score < allowed_ts

\* the test of the GetStatus script: score <= allowed_ts
Allowed(score, allowed_ts) == score <= allowed_ts

\* what the GetStatus script returns for queue id u
GetStatusScript(u) ==
  IF demoQueue[u] = NoScore THEN <<-1, 0>>
  ELSE IF Allowed(demoQueue[u], allowedTS) THEN <<0, DemoTotal>>
  ELSE <<DemoRank(u) + 1, DemoTotal>>

\* RedisStorage.GetStatus: (allowed, position, total) from the script's reply
GetStatus(u) ==
  LET res == GetStatusScript(u) IN
  IF res[1] = -1 THEN [allowed |-> FALSE, pos |-> -1, total |-> 0]
  ELSE IF res[1] = 0 THEN [allowed |-> TRUE, pos |-> 0, total |-> res[2]]
  ELSE [allowed |-> FALSE, pos |-> res[1], total |-> res[2]]

NthScore_first(n) ==
  demoQueue[CHOOSE u \in Users : /\ demoQueue[u] # NoScore
                                 /\ DemoRank(u) = 0]

\* ZRangeWithScores n-1 n-1: the score of the n-th user of the queue
NthScore(n) ==
  demoQueue[CHOOSE u \in Users : /\ demoQueue[u] # NoScore
                                 /\ DemoRank(u) = n - 1]

\* what AllowNext returns: the new allowed timestamp, or 0 (and no error)
\* when the range is empty
AllowNextResult(n) == IF n <= DemoTotal THEN NthScore(n) ELSE 0

\* Service.AllowMore(n), RedisStorage.AllowNext: the allowed timestamp becomes
\* the score of the n-th user of the queue; nothing is set when the queue has
\* fewer than n users
AllowNext(n) ==
  /\ allowReply.seq < MaxAllowCalls
  /\ allowedTS' = IF n <= DemoTotal THEN NthScore(n) ELSE allowedTS
  /\ allowReply' = [seq |-> allowReply.seq + 1, n |-> n,
                    ts |-> AllowNextResult(n)]
  /\ UNCHANGED <<now, storeVars, tokens, lastRefill, handlerVars, bucketVars,
                 reaperVars, demoVars, adminVars, credVars, keyVars, respVars,
                 scalerVars, rollbackVars, podVars, dashVars>>

NextDemo ==
  \/ DemoEnqueue
  \/ \E u \in Users : DemoCheckStatus(u)
  \/ CleanupBegin
  \/ CleanupHGetAll
  \/ \E u \in Users : CleanupZRem(u)
  \/ CleanupHDel
  \/ CleanupReturn
  \/ DemoTick

SpecDemo == Init /\ [][NextDemo]_vars

\* the demo with its admission: enqueue, status polls, AllowMore, the cleanup
NextAllowed ==
  \/ DemoEnqueue
  \/ \E u \in Users : DemoCheckStatus(u)
  \/ \E n \in 1 .. NumUsers : AllowNext(n)
  \/ CleanupBegin
  \/ CleanupHGetAll
  \/ \E u \in Users : CleanupZRem(u)
  \/ CleanupHDel
  \/ CleanupReturn
  \/ DemoTick

SpecAllowed == Init /\ [][NextAllowed]_vars

\* the same without the cleanup: every user enqueued stays in the queue
NextAllow ==
  \/ DemoEnqueue
  \/ \E u \in Users : DemoCheckStatus(u)
  \/ \E n \in 1 .. NumUsers : AllowNext(n)
  \/ DemoTick

SpecAllow == Init /\ [][NextAllow]_vars

\* ------------------------------------- PubSubChannel operator: autoscaler
\* The PubSubChannelReconciler with AutoScaling.Enabled.  Reconcile runs one
\* at a time for a channel and is one step; its API calls are taken to
\* succeed.  The queue depth of the status is written by the metrics side
\* (updateStatus only fills in a simulated depth when it is 0).
ReplicaCounts == 1 .. MaxReplicasCfg

\* the manifests applied: replicas, minReplicas and maxReplicas pass the
\* validation Minimum=1 each and are not checked against one another
ChannelSpecs ==
  [replicas : ReplicaCounts, enabled : {TRUE}, minReplicas : ReplicaCounts,
   maxReplicas : ReplicaCounts]

\* the objects without an autoScaling section; replicas may be left unset
ManualSpecs ==
  [replicas : 0 .. MaxReplicasCfg, enabled : {FALSE}, minReplicas : {0},
   maxReplicas : {0}]

QueueDepths == {d * SimulatedDepth : d \in 0 .. MaxDepthSteps}

ScalerHorizon == CooldownPeriod + 1

podRest == <<storeVars, tokens, lastRefill, handlerVars, bucketVars,
             reaperVars, demoVars, adminVars, credVars, keyVars, respVars,
             watermarkVars, rollbackVars>>

scalerRest == <<podRest, podVars, dashVars>>

dashRest == <<now, podRest, podVars, scalerVars>>

\* kubectl apply of a PubSubChannel
CreateChannel(sp) ==
  /\ chanSpec = NoChannel
  /\ chanSpec' = sp
  /\ scaleLog' = NoReconcile
  /\ UNCHANGED <<now, scalerRest, chanStatus, deployReplicas, scaleTimes>>

\* the metrics side writes status.queueDepth
SetQueueDepth(d) ==
  /\ chanSpec # NoChannel
  /\ chanStatus' = [chanStatus EXCEPT !.queueDepth = d]
  /\ scaleLog' = NoReconcile
  /\ UNCHANGED <<now, scalerRest, chanSpec, deployReplicas, scaleTimes>>

\* reconcileDeployment: the replicas of the deployment it creates
CreatedReplicas == IF chanSpec.replicas = 0 THEN 1 ELSE chanSpec.replicas

\* reconcileAutoScaling: the cooldown check
InCooldown_never(lastScaleTime, clock) == FALSE

InCooldown(lastScaleTime, clock) ==
  /\ lastScaleTime # NoScore
  /\ clock - lastScaleTime < CooldownPeriod

\* reconcileAutoScaling: currentReplicas
CurrentReplicas ==
  IF chanStatus.replicas # 0 THEN chanStatus.replicas
  ELSE IF chanSpec.replicas # 0 THEN chanSpec.replicas
  ELSE 1

\* queueDepth > targetDepth * currentReplicas * scaleUpThreshold, the
\* thresholds being hundredths (150 / 100.0 and 50 / 100.0 are exact)
ScaleUpDue(depth, r) == depth * 100 > TargetQueueDepth * r * ScaleUpThreshold

ScaleDownDue(depth, r) == depth * 100 < TargetQueueDepth * r * ScaleDownThreshold

\* currentReplicas + 1, cut to MaxReplicas
ScaledUp(r) ==
  IF chanSpec.maxReplicas > 0 /\ r + 1 > chanSpec.maxReplicas
    THEN chanSpec.maxReplicas ELSE r + 1

ScaledDown_byTwo(r) ==
  LET m == IF chanSpec.minReplicas > 0 /\ r - 2 < chanSpec.minReplicas
             THEN chanSpec.minReplicas ELSE r - 2
  IN IF m < 1 THEN 1 ELSE m

\* currentReplicas - 1, raised to MinReplicas and to 1
ScaledDown(r) ==
  LET m == IF chanSpec.minReplicas > 0 /\ r - 1 < chanSpec.minReplicas
             THEN chanSpec.minReplicas ELSE r - 1
  IN IF m < 1 THEN 1 ELSE m

\* reconcileAutoScaling: newReplicas
NewReplicas(depth, r) ==
  LET up == IF ScaleUpDue(depth, r) THEN ScaledUp(r) ELSE r
  IN IF ScaleDownDue(depth, r) THEN ScaledDown(r) ELSE up

\* reconcileDeployment: the replicas of the deployment after it returns
ReconciledReplicas ==
  IF deployReplicas = NoDeployment THEN CreatedReplicas
  ELSE IF deployReplicas # chanSpec.replicas /\ ~chanSpec.enabled
    THEN chanSpec.replicas
  ELSE deployReplicas

\* updateStatus: the phase it stores
UpdatedPhase(phase, readyReplicas, replicas) ==
  IF readyReplicas = replicas /\ replicas > 0 /\ phase # "Scaling"
    THEN "Running" ELSE phase

\* Reconcile: the initial phase, reconcileDeployment, reconcileAutoScaling
\* when enabled, updateStatus
Reconcile ==
  /\ chanSpec # NoChannel
  /\ LET found == ReconciledReplicas
         cooling == InCooldown(chanStatus.lastScaleTime, now)
         new == IF cooling \/ ~chanSpec.enabled THEN CurrentReplicas
                ELSE NewReplicas(chanStatus.queueDepth, CurrentReplicas)
         scaled == new # CurrentReplicas
         written == IF scaled THEN new ELSE found
         pending == IF chanStatus.phase = "" THEN "Pending"
                    ELSE chanStatus.phase
         scaling == IF scaled THEN "Scaling" ELSE pending
     IN /\ deployReplicas' = written
        /\ chanStatus' =
             [phase |-> UpdatedPhase(scaling, deployReady, written),
              replicas |-> written,
              readyReplicas |-> deployReady,
              queueDepth |-> IF chanStatus.queueDepth = 0
                               THEN written * SimulatedDepth
                               ELSE chanStatus.queueDepth,
              lastScaleTime |-> IF scaled THEN now
                                ELSE chanStatus.lastScaleTime]
        /\ scaleTimes' = IF scaled /\ written # found
                           THEN scaleTimes \cup {now} ELSE scaleTimes
        /\ scaleLog' = IF chanSpec.enabled
                         THEN [ran |-> TRUE, cooldown |-> cooling,
                               depth |-> chanStatus.queueDepth,
                               from |-> CurrentReplicas, to |-> new]
                         ELSE NoReconcile
  /\ UNCHANGED <<now, scalerRest, chanSpec>>

\* the deployment controller and the kubelets: the pods of the subscriber
\* deployment become ready, or are removed, until as many are ready as the
\* deployment asks for
RolloutDone ==
  /\ deployReplicas # NoDeployment
  /\ deployReady # deployReplicas
  /\ deployReady' = deployReplicas
  /\ scaleLog' = NoReconcile
  /\ UNCHANGED <<now, podRest, dashVars, chanSpec, chanStatus,
                 deployReplicas, scaleTimes>>

ScalerTick ==
  /\ now < ScalerHorizon
  /\ now' = now + 1
  /\ scaleLog' = NoReconcile
  /\ UNCHANGED <<scalerRest, chanSpec, chanStatus, deployReplicas, scaleTimes>>

NextScaler ==
  \/ \E sp \in ChannelSpecs : CreateChannel(sp)
  \/ \E d \in QueueDepths : SetQueueDepth(d)
  \/ Reconcile
  \/ ScalerTick

SpecScaler == Init /\ [][NextScaler]_vars

\* the operator with both kinds of channel and the rollout of the pods; the
\* workqueue runs Reconcile again and again (RequeueAfter 30 s), and a
\* deployment whose pods can start does get them ready
NextChannel ==
  \/ \E sp \in ChannelSpecs \cup ManualSpecs : CreateChannel(sp)
  \/ \E d \in QueueDepths : SetQueueDepth(d)
  \/ Reconcile
  \/ RolloutDone
  \/ ScalerTick

ChannelFairness == WF_vars(Reconcile) /\ WF_vars(RolloutDone)

SpecChannel == Init /\ [][NextChannel]_vars /\ ChannelFairness

\* ------------------------------------------- golang-pubsub: the dashboard
\* The Bubble Tea program of dashboard.go: Init issues connectCmd; the
\* runtime runs each command and hands its message to Update.  The Redis
\* server comes and goes.  tickMsg and the spinner change nothing modelled
\* here, and the quit key is not pressed.

\* the Redis server starts answering, or stops
RedisStarts ==
  /\ ~redisUp
  /\ redisUp' = TRUE
  /\ UNCHANGED <<dashRest, dashboard, dashCmd, pings, msgChan>>

RedisStops ==
  /\ redisUp
  /\ redisUp' = FALSE
  /\ UNCHANGED <<dashRest, dashboard, dashCmd, pings, msgChan>>

\* model.connectCmd: Ping; on success the subscriber goroutine is started
ConnectCmd ==
  /\ dashCmd.kind = "connectCmd"
  /\ pings' = pings + 1
  /\ dashCmd' = [kind |-> "connectMsg", success |-> redisUp,
                  err |-> ~redisUp, after |-> 0]
  /\ dashboard' = IF redisUp THEN [dashboard EXCEPT !.subscribed = TRUE]
                  ELSE dashboard
  /\ UNCHANGED <<dashRest, redisUp, msgChan>>

\* what Update returns with the model for a connectMsg: on failure a timer
\* of 3 seconds whose message is connectMsg{}
ConnectRetry(msg) ==
  IF ~msg.success THEN [kind |-> "tick", success |-> FALSE, err |-> FALSE,
                         after |-> RetrySeconds]
  ELSE NoCmd

\* model.Update, case connectMsg
UpdateConnectMsg ==
  /\ dashCmd.kind = "connectMsg"
  /\ dashboard' = [dashboard EXCEPT !.connected = dashCmd.success]
  /\ dashCmd' = ConnectRetry(dashCmd)
  /\ UNCHANGED <<dashRest, redisUp, pings, msgChan>>

\* a second of the retry timer passes
RetrySecond ==
  /\ dashCmd.kind = "tick"
  /\ dashCmd.after > 0
  /\ dashCmd' = [dashCmd EXCEPT !.after = @ - 1]
  /\ UNCHANGED <<dashRest, redisUp, dashboard, pings, msgChan>>

\* the timer fires: func(time.Time) tea.Msg { return connectMsg{} }
RetryFires ==
  /\ dashCmd.kind = "tick"
  /\ dashCmd.after = 0
  /\ dashCmd' = [kind |-> "connectMsg", success |-> FALSE, err |-> FALSE,
                  after |-> 0]
  /\ UNCHANGED <<dashRest, redisUp, dashboard, pings, msgChan>>

\* model.subscribe: a published message is put into msgChan unless it is full
Subscribe ==
  /\ dashboard.subscribed
  /\ redisUp
  /\ msgChan' = IF msgChan < ChanCap THEN msgChan + 1 ELSE msgChan
  /\ UNCHANGED <<dashRest, redisUp, dashboard, dashCmd, pings>>

\* model.receiveCmd and model.Update, case receiveMsg: the newest
\* KeepMessages messages are kept
UpdateReceiveMsg ==
  /\ msgChan > 0
  /\ msgChan' = msgChan - 1
  /\ dashboard' = [dashboard EXCEPT
                     !.messages = IF @ < KeepMessages THEN @ + 1 ELSE @]
  /\ UNCHANGED <<dashRest, redisUp, dashCmd, pings>>

NextDash ==
  \/ RedisStarts
  \/ RedisStops
  \/ ConnectCmd
  \/ UpdateConnectMsg
  \/ RetrySecond
  \/ RetryFires
  \/ Subscribe
  \/ UpdateReceiveMsg

\* the runtime runs every command issued and delivers every message; timers
\* run down
DashFairness ==
  /\ WF_vars(ConnectCmd)
  /\ WF_vars(UpdateConnectMsg)
  /\ WF_vars(RetrySecond)
  /\ WF_vars(RetryFires)

SpecDash == Init /\ [][NextDash]_vars /\ DashFairness

\* ------------------------------------------ the admission bucket alone
\* current_timestamp of the script: Unix seconds
UnixSeconds(t) == t \div TicksPerSecond

\* the Lua token bucket: what the script returns and what it stores
DistributedTryAdmit(stored, lastUpdate, clock, r, capacity) ==
  LET t0 == IF stored = Absent THEN capacity ELSE ValueOf(stored)
      last == IF lastUpdate = Absent THEN clock ELSE ValueOf(lastUpdate)
      filled == Min(t0 + Refill(clock - last, r, 1), capacity)
  IN IF filled > 0
       THEN [ok |-> TRUE,
             tokens |-> IF stored = Absent THEN Stored(-1)
                        ELSE Stored(ValueOf(stored) - 1),
             last |-> Stored(clock)]
       ELSE [ok |-> FALSE, tokens |-> stored, last |-> lastUpdate]

\* one call of AdmissionController.TryAdmit by the admission loop
LocalTryAdmit ==
  /\ mode = "local"
  /\ LET r == TryAdmit(tokens, lastRefill, now, rate, ScenarioCapacity,
                       TicksPerSecond)
     IN /\ tokens' = r.tokens
        /\ lastRefill' = r.last
        /\ granted' = IF r.ok THEN granted + 1 ELSE granted
  /\ UNCHANGED <<now, storeVars, handlerVars, mode, luaTokens, luaLastUpdate,
                 rate, sideVars>>

\* one run of the distributed admission script
LuaTryAdmit ==
  /\ mode = "distributed"
  /\ LET r == DistributedTryAdmit(luaTokens, luaLastUpdate, UnixSeconds(now),
                                  rate, ScenarioCapacity)
     IN /\ luaTokens' = r.tokens
        /\ luaLastUpdate' = r.last
        /\ granted' = IF r.ok THEN granted + 1 ELSE granted
  /\ UNCHANGED <<now, storeVars, handlerVars, mode, tokens, lastRefill, rate,
                 sideVars>>

BucketTick ==
  /\ now < WindowSeconds * TicksPerSecond
  /\ now' = now + 1
  /\ UNCHANGED <<storeVars, tokens, lastRefill, handlerVars, bucketVars,
                 sideVars>>

\* the bucket starts full: the controller's tokens, or the stored count after
\* the documented initialisation, equal the capacity
BucketStart(r, keysSet) ==
  /\ now = 0
  /\ waiting = [k \in Priorities |-> <<>>]
  /\ positions = [p \in Pos |-> NoScore]
  /\ status = [p \in Pos |-> "none"]
  /\ prio = [p \in Pos |-> 0]
  /\ fpOf = [p \in Pos |-> Nil]
  /\ admittedAt = [p \in Pos |-> NoScore]
  /\ ipmap = [f \in FP |-> Nil]
  /\ heartbeat = [p \in Pos |-> NoScore]
  /\ sessions = {}
  /\ call = [h \in Handlers |-> Idle]
  /\ lastReturn = [fp |-> Nil, ret |-> Nil]
  /\ hbPending = {}
  /\ nextId = 1
  /\ mode \in {"local", "distributed"}
  /\ tokens = ScenarioCapacity
  /\ lastRefill = 0
  /\ IF keysSet
       THEN luaTokens = Stored(ScenarioCapacity) /\ luaLastUpdate = Stored(0)
       ELSE luaTokens = Absent /\ luaLastUpdate = Absent
  /\ granted = 0
  /\ rate = r
  /\ SideInit

InitBucket == BucketStart(ScenarioRate, TRUE)

\* a queue whose admission_rate is 0; the distributed bucket's keys are either
\* initialised or not yet written
InitRateZero == \E keysSet \in BOOLEAN : BucketStart(0, keysSet)

NextBucket ==
  \/ LocalTryAdmit
  \/ LuaTryAdmit
  \/ BucketTick

SpecBucket == InitBucket /\ [][NextBucket]_vars

SpecRateZero == InitRateZero /\ [][NextBucket]_vars

\* the admission loop keeps calling tryAdmit and the clock keeps running (up
\* to the end of the window)
BucketFairness ==
  /\ WF_vars(LocalTryAdmit)
  /\ WF_vars(LuaTryAdmit)
  /\ WF_vars(BucketTick)

SpecBucketLive == InitBucket /\ [][NextBucket]_vars /\ BucketFairness

\* ------------------------------- the admission bucket with token returns
\* ReturnToken by the admission loop after a granted admission that admitted
\* nobody: tokens + 1 on the controller, INCR on the stored count
LocalReturnToken ==
  /\ mode = "local"
  /\ returned < granted
  /\ returned < MaxReturns
  /\ tokens' = ReturnToken(tokens)
  /\ returned' = returned + 1
  /\ UNCHANGED <<now, storeVars, lastRefill, handlerVars, bucketVars,
                 reaperVars, demoVars, adminVars, credVars, keyVars, respVars,
                 watermarkVars, scalerVars, podVars, dashVars>>

LuaReturnToken ==
  /\ mode = "distributed"
  /\ returned < granted
  /\ returned < MaxReturns
  /\ luaTokens' = Stored(ReturnToken(IF luaTokens = Absent THEN 0
                                     ELSE ValueOf(luaTokens)))
  /\ returned' = returned + 1
  /\ UNCHANGED <<now, storeVars, tokens, lastRefill, handlerVars, mode,
                 luaLastUpdate, granted, rate,
                 reaperVars, demoVars, adminVars, credVars, keyVars, respVars,
                 watermarkVars, scalerVars, podVars, dashVars>>

\* two seconds of the scenario's clock
TokensHorizon == 2 * TicksPerSecond

TokensTick ==
  /\ now < TokensHorizon
  /\ now' = now + 1
  /\ UNCHANGED <<storeVars, tokens, lastRefill, handlerVars, bucketVars,
                 sideVars>>

NextTokens ==
  \/ LocalTryAdmit
  \/ LuaTryAdmit
  \/ LocalReturnToken
  \/ LuaReturnToken
  \/ TokensTick

SpecTokens == InitBucket /\ [][NextTokens]_vars

\* ================================================================ claims
\* a step in which Dequeue returns position p
AdmittedNow(p) == status[p] # "admitted" /\ status'[p] = "admitted"

\* position ids are minted in the order the enqueue scripts run
EnqueuedBefore(x, y) == x < y

\* C1: while a waiting position of a higher priority exists, Dequeue never
\* returns a position of a lower priority (priorities are tried 3, 2, 1, 0).
C1_HigherPriorityFirst ==
  [][\A p \in Pos : AdmittedNow(p) =>
        ~\E q \in Pos : status[q] = "waiting" /\ prio[q] > prio[p]]_vars

AllowedTransitions ==
  {<<"none", "waiting">>,
   <<"waiting", "admitted">>, <<"waiting", "expired">>, <<"waiting", "cancelled">>,
   <<"admitted", "active">>, <<"admitted", "expired">>,
   <<"admitted", "terminated">>, <<"admitted", "completed">>}

\* C3: every change of a position's status follows the state machine
\* waiting -> {admitted, expired, cancelled}, admitted -> {active, expired,
\* terminated, completed}; in particular an expired position is never admitted.
C3_StatusStateMachine ==
  [][\A p \in Pos : status'[p] # status[p] =>
        <<status[p], status'[p]>> \in AllowedTransitions]_vars

C5_LivenessIsWaiting ==
  \A p \in Pos : heartbeat[p] # NoScore <=> status[p] = "waiting"

\* C6: an Enqueue call made with a fingerprint that already maps to a
\* position returns that position's id, and no fingerprint ever gets a second
\* position (the queue grows by one for the two calls together).
C6_DuplicateReturnsSameId ==
  [][/\ (lastReturn' # lastReturn /\ ipmap[lastReturn'.fp] # Nil) =>
           lastReturn'.ret = ipmap[lastReturn'.fp]
     /\ \A f \in FP : Cardinality({p \in Pos : fpOf'[p] = f}) <= 1]_vars

\* C7: with max-size > 0 the queue length never exceeds max-size.
C7_NeverAboveMaxSize == MaxQueueSize > 0 => QueueLength <= MaxQueueSize

\* C8: the number of active sessions of the queue never exceeds max-active.
C8_ActiveWithinMaxActive == Cardinality(sessions) <= MaxActive

\* the positions admitted in the interval [s, e]
AdmittedIn(s, e) ==
  Cardinality({p \in Pos : /\ admittedAt[p] # NoScore
                           /\ s <= admittedAt[p]
                           /\ admittedAt[p] <= e})

\* ceil(admission-rate x duration), for a duration in whole seconds
CeilRateTimes(d) == AdmissionRate * d

Available == IF mode = "local" THEN tokens ELSE ValueOf(luaTokens)

\* C10 (as stated): rate 2/s, capacity 5, bucket full at the start: the first
\* five admissions can be granted at once, the sixth is granted no earlier than
\* 0.5 s after the start, and at most 21 are granted in the 10-second window.
C10_RefillScenario21 ==
  /\ granted < ScenarioCapacity => Available >= 1
  /\ granted > ScenarioCapacity => now * ScenarioRate >= TicksPerSecond
  /\ granted <= 21

\* C10 (amended): as stated, but at most 25 admissions (the capacity, 5, plus
\* rate x window, 20) are granted in the 10-second window.
C10_RefillScenario25 ==
  /\ granted < ScenarioCapacity => Available >= 1
  /\ granted > ScenarioCapacity => now * ScenarioRate >= TicksPerSecond
  /\ granted <= ScenarioCapacity + ScenarioRate * WindowSeconds

C10_Witness ==
  /\ now = WindowSeconds * TicksPerSecond
  /\ granted = ScenarioCapacity + ScenarioRate * WindowSeconds

\* C11 (as stated): with admission rate 0 no tryAdmit call ever succeeds.
C11_RateZeroAdmitsNone == rate = 0 => granted = 0

\* C11 (amended): with admission rate 0 the bucket never refills: at most
\* capacity tryAdmit calls succeed (the bucket's initial tokens), however
\* much time passes.
C11_RateZeroAdmitsInitialTokens == rate = 0 => granted <= ScenarioCapacity

C11_Witness ==
  /\ rate = 0
  /\ now = WindowSeconds * TicksPerSecond
  /\ granted = ScenarioCapacity

\* C12: when a heartbeat and the reaper race for a position, a touch never
\* succeeds on a position that has been expired and never puts it back into
\* the liveness index.
C12_NoTouchAfterExpiry ==
  [][\A p \in Pos : status[p] = "expired" =>
        (heartbeat'[p] = heartbeat[p] \/ heartbeat'[p] = NoScore)]_vars

\* C13: when several reaper instances pick the same stale position, only
\* one of them publishes the expiry event: at most one position.expired event
\* per position id.
C13_OneExpiryEventPerPosition == \A p \in Pos : expiredEvents[p] <= 1

\* C14: a position the reaper has expired for missing heartbeats is removed
\* from its priority list, from the rank ordered-set and from the liveness
\* index, so that it can no longer be dequeued.
C14_ExpiredIsRemoved ==
  \A p \in Pos : status[p] = "expired" =>
     /\ \A k \in Priorities : ~InList(waiting[k], p)
     /\ positions[p] = NoScore
     /\ heartbeat[p] = NoScore

\* C15: cleanup removes only users who have not heartbeated for more than
\* the timeout: a user the cleanup pass removes from the queue has lapsed,
\* whatever heartbeats interleave with the pass.
C15_OnlyLapsedUsersRemoved ==
  [][\A u \in Users :
       (demoQueue[u] # NoScore /\ demoQueue'[u] = NoScore) => u \in lapsed]_vars

C15_Witness ==
  \E u, v \in Users :
     /\ u < demoNext /\ demoQueue[u] = NoScore /\ u \in lapsed
     /\ demoQueue[v] # NoScore /\ v \notin lapsed
     /\ now - demoQueue[v] > TimeoutNano(DemoTimeoutSeconds)

IndexIn(l, v) == CHOOSE i \in 1 .. Len(l) : l[i] = v

\* C16: while the queue's status is not active no position is admitted, and
\* the positions that stay in a priority list keep their relative order.
C16_NoAdmissionUnlessActive ==
  [][queueStatus # "active" =>
       /\ \A p \in Pos : ~AdmittedNow(p)
       /\ \A k \in Priorities : \A x, y \in Pos :
            (/\ InList(waiting[k], x) /\ InList(waiting[k], y)
             /\ InList(waiting'[k], x) /\ InList(waiting'[k], y)
             /\ IndexIn(waiting[k], x) < IndexIn(waiting[k], y))
            => IndexIn(waiting'[k], x) < IndexIn(waiting'[k], y)]_vars

\* C17: while the queue's status is not active Enqueue creates no position:
\* no position id is minted, and the priority lists, the rank set, the
\* liveness index, the metadata and the fingerprint map gain no entry.
C17_NoEnqueueUnlessActive ==
  [][queueStatus # "active" =>
       /\ nextId' = nextId
       /\ \A p \in Pos :
            /\ positions[p] = NoScore => positions'[p] = NoScore
            /\ heartbeat[p] = NoScore => heartbeat'[p] = NoScore
            /\ status[p] = "none" => status'[p] = "none"
            /\ \A k \in Priorities :
                 ~InList(waiting[k], p) => ~InList(waiting'[k], p)
       /\ \A f \in FP : ipmap[f] = Nil => ipmap'[f] = Nil]_vars

\* the token presented is one the validator accepts but for its binding
LiveToken(c, clock) ==
  /\ c.sig /\ c.nbf <= clock /\ clock < c.exp

C19_RevokedUntilExpiry ==
  \A c \in Presentable, t \in TokenTypes, f \in FP :
     (revokedAt[c.id] # NoScore /\ now < c.exp) => Validate(c, t, f) # "ok"

\* C20: a token issued for a position after the revocation of an earlier
\* token of that position validates.
C20_FreshTokenValidates ==
  \A c \in issued :
     (/\ LiveToken(c, now)
      /\ revokedAt[c.id] # NoScore
      /\ c.nbf > revokedAt[c.id])
     => Validate(c, c.typ, IPAddress(c.id)) = "ok"

\* C21: the token RefreshToken returns for a valid queue token is valid,
\* carries the same id and expires no earlier than the token refreshed;
\* the tokens of a chain of refreshes are such pairs one after the other.
C21_RefreshKeepsValid ==
  (lastRefresh # NoRefresh /\ ValidateToken(lastRefresh[1], "queue") = "ok")
  => /\ ValidateToken(lastRefresh[2], "queue") = "ok"
     /\ lastRefresh[2].id = lastRefresh[1].id
     /\ lastRefresh[2].exp >= lastRefresh[1].exp

\* a valid token that is itself the outcome of a refresh has been refreshed
\* into a later one
C21_Witness ==
  /\ lastRefresh # NoRefresh
  /\ ValidateToken(lastRefresh[1], "queue") = "ok"
  /\ lastRefresh[1].exp > lastRefresh[1].nbf + TokenTTL
  /\ lastRefresh[2].exp > lastRefresh[1].exp

\* C22: a live token signed with a key that is still in the key map
\* validates, whichever key is the active one; tokens are signed with the
\* active key.
C22_OlderKeyStillValidates ==
  \A c \in issued :
     (LiveToken(c, now) /\ ~isRevoked(c.id) /\ GetKey(c.kid) # Nil)
     => ValidateToken(c, c.typ) = "ok"

\* C23: the first heartbeat request answered after the position expired
\* is answered position-expired, every later one unauthorized.
C23_PositionExpiredOnce ==
  \A p \in Pos :
     /\ postExpiry[p] = 1 => hbResponse[p] = "position-expired"
     /\ postExpiry[p] = 2 => hbResponse[p] = "unauthorized"

\* waiting positions strictly before p in admission order: those of a
\* higher priority, and those before it in its own priority list
Preceding(p) ==
  {q \in Pos : /\ status[q] = "waiting"
               /\ \/ prio[q] > prio[p]
                  \/ /\ prio[q] = prio[p]
                     /\ InList(waiting[prio[p]], q) /\ InList(waiting[prio[p]], p)
                     /\ IndexIn(waiting[prio[p]], q) < IndexIn(waiting[prio[p]], p)}

\* C24: the rank reported for a waiting position, counted from 1, is one
\* more than the number of waiting positions strictly preceding it in
\* admission order (higher priority first, then earlier in its list).
C24_RankCountsPreceding ==
  \A p \in Pos :
     status[p] = "waiting" => QueuePosition(p) = Cardinality(Preceding(p)) + 1

\* C25: the step that cancels a waiting position takes it out of its
\* priority list, the rank ordered-set and the liveness index and sets its
\* status to cancelled; no later step admits a cancelled position and none
\* expires it.
C25_CancelledStaysOut ==
  [][\A p \in Pos :
       /\ (status[p] = "waiting" /\ status'[p] = "cancelled") =>
            /\ \A k \in Priorities : ~InList(waiting'[k], p)
            /\ positions'[p] = NoScore
            /\ heartbeat'[p] = NoScore
       /\ status[p] = "cancelled" =>
            /\ ~AdmittedNow(p)
            /\ status'[p] # "expired"]_vars

\* the queued users ahead of u: an earlier score, or the same score and a
\* smaller member
AheadInQueue(u) ==
  {v \in Users : /\ demoQueue[v] # NoScore
                 /\ \/ demoQueue[v] < demoQueue[u]
                    \/ demoQueue[v] = demoQueue[u] /\ v < u}

\* C26: GetStatus reports a queued user as allowed if and only if the
\* user's enqueue score is at most the stored allowed timestamp; otherwise it
\* reports the user's rank in the queue, counted from 1.
C26_AllowedIffWithinWatermark ==
  \A u \in Users : demoQueue[u] # NoScore =>
     /\ GetStatus(u).allowed <=> demoQueue[u] <= allowedTS
     /\ ~GetStatus(u).allowed =>
          GetStatus(u).pos = Cardinality(AheadInQueue(u)) + 1

\* AllowMore has set the watermark to the score of a user who has polled
\* since and is allowed, while a later user stands at rank 2
C26_Witness ==
  \E u, v \in Users :
     /\ allowedTS > 0
     /\ demoQueue[u] = allowedTS /\ demoSessions[u] > demoQueue[u]
     /\ GetStatus(u).allowed
     /\ demoQueue[v] > allowedTS
     /\ ~GetStatus(v).allowed /\ GetStatus(v).pos = 2

\* C27: no replica change is made by the autoscaler while less than
\* cooldownPeriod seconds have elapsed since an earlier scaling operation.
C27_CooldownRespected ==
  [][deployReplicas # NoDeployment /\ deployReplicas' # deployReplicas =>
       \A t \in scaleTimes : now - t >= CooldownPeriod]_vars

\* the autoscaler has changed the replica count twice
C27_Witness ==
  /\ Cardinality(scaleTimes) >= 2
  /\ scaleLog.ran /\ scaleLog.to # scaleLog.from

C29_AdmittedLeavesFingerprintMap ==
  [][/\ \A p \in Pos : AdmittedNow(p) => ipmap'[fpOf[p]] # p
     /\ (lastReturn' # lastReturn /\ lastReturn'.ret \in Pos) =>
           status'[lastReturn'.ret] = "waiting"]_vars

\* C30: the stored token count of the bucket (admission:{q}:tokens) is at
\* least 0 and at most the capacity in every reachable state, whatever
\* tryAdmit and returnToken calls have run.
C30_TokensWithinCapacity ==
  luaTokens # Absent =>
     /\ 0 <= ValueOf(luaTokens)
     /\ ValueOf(luaTokens) <= ScenarioCapacity

\* C31: an admission attempt on an empty queue admits nobody and leaves
\* the bucket's token count at its value after the refill: the token that
\* tryAdmit took is returned.
C31_EmptyQueueReturnsToken ==
  [][(/\ \A k \in Priorities : waiting[k] = <<>>
      /\ lastRefill' # lastRefill \/ tokens' # tokens) =>
       /\ tokens' = Refilled(tokens, Refill(now - lastRefill, AdmissionRate, 1),
                             MaxActive)
       /\ \A p \in Pos : ~AdmittedNow(p)]_vars

\* the bucket was emptied by admissions, refilled with time, and an attempt
\* on the then empty queue has left the refilled token in it
C31_Witness ==
  /\ now > 0 /\ lastRefill = now /\ tokens > 0
  /\ \A k \in Priorities : waiting[k] = <<>>
  /\ \A p \in Pos : admittedAt[p] # now
  /\ Cardinality({p \in Pos : status[p] = "admitted"}) = MaxActive

\* C32: admission does not lock up: once the bucket's initial tokens are
\* used and at least a second of the window remains, repeated tryAdmit calls
\* eventually grant a further admission (to the head position), however
\* short the interval between the calls.
C32_AdmissionDoesNotLockUp ==
  (/\ granted = ScenarioCapacity
   /\ now + TicksPerSecond <= WindowSeconds * TicksPerSecond)
  ~> (granted > ScenarioCapacity)

\* C33: AllowNext(n), called when at least n users are queued, sets the
\* allowed timestamp to the score of the n-th user in queue order and returns
\* it; right after the call the first n users are all reported allowed.
C33_AllowNextAllowsFirstN ==
  [][(allowReply'.seq # allowReply.seq /\ allowReply'.n <= DemoTotal) =>
       /\ \E u \in Users : /\ Cardinality(AheadInQueue(u)) = allowReply'.n - 1
                           /\ demoQueue[u] # NoScore
                           /\ allowedTS' = demoQueue[u]
       /\ allowReply'.ts = allowedTS'
       /\ \A u \in Users :
            (demoQueue'[u] # NoScore
             /\ Cardinality(AheadInQueue(u)') < allowReply'.n)
            => GetStatus(u)'.allowed]_vars

\* AllowNext(n), n > 1, has just been answered with the score of the n-th
\* queued user, which is later than the first user's
C33_Witness ==
  /\ allowReply.seq > 0 /\ allowReply.n > 1 /\ allowReply.n <= DemoTotal
  /\ allowReply.ts = allowedTS /\ allowedTS > 0
  /\ \E u, v \in Users : /\ demoQueue[u] # NoScore /\ demoQueue[v] # NoScore
                         /\ demoQueue[u] < demoQueue[v]
                         /\ demoQueue[v] = allowedTS
                         /\ GetStatus(u).allowed /\ GetStatus(v).allowed

\* C34: the allowed timestamp never decreases, and a queued user who is
\* reported allowed is still reported allowed by every later status check
\* made while that user is in the queue.
C34_AllowedStaysAllowed ==
  [][/\ allowedTS' >= allowedTS
     /\ \A u \in Users :
          (demoQueue[u] # NoScore /\ GetStatus(u).allowed
           /\ demoQueue'[u] # NoScore)
          => GetStatus(u)'.allowed]_vars

\* C35: AllowNext(n), called when fewer than n users are queued, is not
\* answered with timestamp 0 and no error while the allowed timestamp stays
\* what it was (the reply records the returned timestamp; the call has no
\* error outcome other than a failure of the store itself).
C35_ShortQueueNotSilentlyIgnored ==
  [][(allowReply'.seq # allowReply.seq /\ allowReply'.n > DemoTotal) =>
       ~(allowReply'.ts = 0 /\ allowedTS' = allowedTS)]_vars


\* the members of the ordered set waiting_room:queue
QueueMembers == {u \in Users : demoQueue[u] # NoScore}

\* the fields of the hash waiting_room:sessions
SessionFields == {u \in Users : demoSessions[u] # NoScore}

\* C36: whenever no cleanup pass is in progress, the members of the queue
\* ordered set are exactly the fields of the sessions hash, whatever the
\* interleaving of Enqueue, GetStatus and CleanupStaleSessions has been.
C36_QueueMatchesSessions ==
  cleaner.pc = "idle" => QueueMembers = SessionFields

\* a cleanup pass has ended after removing one user while another, enqueued
\* as well, is still in both structures
C36_Witness ==
  /\ cleaner.pc = "idle"
  /\ \E u, v \in Users : /\ u < demoNext /\ v < demoNext
                         /\ demoQueue[u] = NoScore /\ demoSessions[u] = NoScore
                         /\ demoQueue[v] # NoScore /\ demoSessions[v] # NoScore


\* C37: with auto-scaling enabled and 0 < minReplicas <= maxReplicas, every
\* replica count the autoscaler writes to the deployment lies in
\* [minReplicas, maxReplicas] and is at least 1.
C37_ScaledWithinBounds ==
  (/\ scaleLog.ran /\ scaleLog.to # scaleLog.from
   /\ chanSpec.minReplicas > 0
   /\ chanSpec.minReplicas <= chanSpec.maxReplicas)
  => /\ scaleLog.to = deployReplicas
     /\ deployReplicas >= chanSpec.minReplicas
     /\ deployReplicas <= chanSpec.maxReplicas
     /\ deployReplicas >= 1


\* C38: for a channel with auto-scaling disabled and spec.replicas unset (0)
\* the subscriber deployment is created with 1 replica and has 1 replica
\* after every reconcile: its replica count is never set to 0.
C38_UnsetReplicasStaysOne ==
  (/\ chanSpec # NoChannel /\ ~chanSpec.enabled /\ chanSpec.replicas = 0
   /\ deployReplicas # NoDeployment)
  => deployReplicas = 1

\* C39: once a scaling operation has set the phase to Scaling, the phase
\* returns to Running (reconciles keep running, the pods become ready).
C39_ScalingReturnsToRunning ==
  (chanStatus.phase = "Scaling") ~> (chanStatus.phase = "Running")


\* C40: after a failed connection attempt the dashboard retries: if the
\* Redis server becomes reachable and stays so, the dashboard eventually is
\* connected with its subscriber started.
C40_RetryReconnects ==
  (<>[]redisUp) => <>(dashboard.connected /\ dashboard.subscribed)


====
